---- MODULE Spec2Model ----
(***************************************************************************)
(* Model of lib/tools.py of distro-info-data: the ISO 8601 date converter  *)
(* convert_date and the command line dispatcher main.                      *)
(*                                                                         *)
(* A Python str is a sequence of Unicode code points: "2012-01" is         *)
(* <<50, 48, 49, 50, 45, 48, 49>>.  That holds for the argument of         *)
(* convert_date and for the elements of sys.argv.                          *)
(***************************************************************************)
EXTENDS Integers, Sequences, FiniteSets, TLC

VARIABLES
    string,               \* convert_date: the argument (None or a str)
    date_pc,              \* convert_date: "call", "returned" or "raised"
    date,                 \* convert_date: the value returned
    error,                \* convert_date: the exception raised
    sys_argv,             \* main: sys.argv, the ambient process arguments
    validation_function,  \* main: the function passed in
    pc,                   \* main: position in the body of main
    args,                 \* main: the namespace parse_args returned
    distro,               \* main: the distro label
    calls,                \* main: the calls made to validation_function
    status,               \* main: how the run ended
    run,                  \* main: "first" or "second" run of the program
    prev,                 \* main: outcome and program name of the first run
    args_changed          \* main: sys.argv[1:] differs from the previous run

date_vars == <<string, date_pc, date, error>>
main_vars == <<sys_argv, validation_function, pc, args, distro, calls, status,
               run, prev, args_changed>>
vars == <<string, date_pc, date, error, sys_argv, validation_function, pc, args,
          distro, calls, status, run, prev, args_changed>>

----------------------------------------------------------------------------
(* Bounds of the model *)

\* largest number of dash-separated parts of an input of convert_date
MaxParts == 4
\* largest number of command line arguments after the program name
MaxArgs == 3

----------------------------------------------------------------------------
(* Python values *)

None == [kind |-> "None"]
Str(chars) == [kind |-> "str", chars |-> chars]

\* code points the code or the libraries it calls name
Dash == 45
Plus == 43
Underscore == 95
Equals == 61
Blank == 32
Dot == 46
Slash == 47
Percent == 37
LeftParen == 40
RightParen == 41
Star == 42

\* CHOOSE got \in { F(held) : held \in {e} } : TRUE is F(e) with e evaluated
\* once, like a local variable of the code, however often F uses it

Least(S) == CHOOSE x \in S : \A y \in S : x <= y
Greatest(S) == CHOOSE x \in S : \A y \in S : x >= y
SetMin(S) == (CHOOSE got \in { Least(held) : held \in {S} } : TRUE)
SetMax(S) == (CHOOSE got \in { Greatest(held) : held \in {S} } : TRUE)

\* the white space int() skips around a literal: that of C's isspace() and
\* the Unicode white space above the ASCII range
CSpaces == {9, 10, 11, 12, 13, 32}
UnicodeSpaces ==
    {133, 160, 5760, 8192, 8193, 8194, 8195, 8196, 8197, 8198, 8199, 8200,
     8201, 8202, 8232, 8233, 8239, 8287, 12288}
IsSpace(c) == c \in CSpaces \cup UnicodeSpaces

\* the code points of the digit zero of every decimal digit range of Unicode;
\* the nine code points after each are its digits 1 to 9
DecimalZeros ==
    {48, 1632, 1776, 1984, 2406, 2534, 2662, 2790, 2918, 3046, 3174, 3302,
     3430, 3558, 3664, 3792, 3872, 4160, 4240, 6112, 6160, 6470, 6608, 6784,
     6800, 6992, 7088, 7232, 7248, 42528, 43216, 43264, 43472, 43504, 43600,
     44016, 65296, 66720, 68912, 69734, 69872, 69942, 70096, 70384, 70736,
     70864, 71248, 71360, 71472, 71904, 72016, 72784, 73040, 73120, 92768,
     92864, 93008, 120782, 120792, 120802, 120812, 120822, 123200, 123632,
     125264, 130032}
\* an ASCII character is looked at directly, any other in the ranges
IsDecimal(c) ==
    IF c < 128 THEN c \in 48..57
    ELSE \E z \in DecimalZeros : z <= c /\ c <= z + 9
DecimalValue(c) ==
    IF c < 128 THEN c - 48
    ELSE c - (CHOOSE z \in DecimalZeros : z <= c /\ c <= z + 9)

\* the largest value of a C int, the type datetime.date takes its arguments as
INT_MAX == 2147483647

\* sys.get_int_max_str_digits(): the most digits int() converts
MAX_STR_DIGITS == 4300

Truthy_IsNotNone(s) == s.kind = "str"

\* bool(string) is False for None and for the empty str
Truthy(s) == s.kind = "str" /\ s.chars # <<>>

\* a split that drops the empty parts, as str.split() without separator does
RECURSIVE Split_DropEmpty(_)
Split_DropEmpty(s) ==
    LET dashes == { i \in 1..Len(s) : s[i] = Dash }
    IN  IF dashes = {} THEN (IF s = <<>> THEN <<>> ELSE <<s>>)
        ELSE LET i == SetMin(dashes)
                 rest == Split_DropEmpty(SubSeq(s, i + 1, Len(s)))
             IN  IF i = 1 THEN rest ELSE <<SubSeq(s, 1, i - 1)>> \o rest

\* str.split("-"): the parts between the dashes, at least one, empty ones kept
RECURSIVE Split(_)
Split(s) ==
    LET dashes == { i \in 1..Len(s) : s[i] = Dash }
    IN  IF dashes = {} THEN <<s>>
        ELSE LET i == SetMin(dashes)
             IN  <<SubSeq(s, 1, i - 1)>> \o Split(SubSeq(s, i + 1, Len(s)))

\* the literal without the white space before and after it
Strip(x) ==
    LET keep == { i \in 1..Len(x) : ~IsSpace(x[i]) }
    IN  IF keep = {} THEN <<>> ELSE SubSeq(x, SetMin(keep), SetMax(keep))

\* the digits of an int literal after its sign: decimal digits, single
\* underscores allowed between two digits
IsDigitString(b) ==
    /\ b # <<>>
    /\ IsDecimal(b[1])
    /\ IsDecimal(b[Len(b)])
    /\ \A i \in 1..Len(b) : IsDecimal(b[i]) \/ b[i] = Underscore
    /\ \A i \in 1..(Len(b) - 1) : ~(b[i] = Underscore /\ b[i + 1] = Underscore)

\* the digits of a digit string from its first digit that is not zero
Significant(b) ==
    LET ds == SelectSeq(b, IsDecimal)
        nz == { i \in 1..Len(ds) : DecimalValue(ds[i]) # 0 }
    IN  IF nz = {} THEN <<>> ELSE SubSeq(ds, SetMin(nz), Len(ds))

\* the value of at most nine digits
RECURSIVE Value(_)
Value(ds) ==
    IF ds = <<>> THEN 0
    ELSE 10 * Value(SubSeq(ds, 1, Len(ds) - 1)) + DecimalValue(ds[Len(ds)])

\* the magnitude of a digit string.  Python ints are unbounded: the value is
\* kept when a C int holds it (fits), the magnitude INT_MAX + 1 is told
\* apart (min: a C int holds its negative), anything above is neither
Magnitude(b) ==
    LET sig == Significant(b)
        n == Len(sig)
        high == Value(SubSeq(sig, 1, IF n < 10 THEN n ELSE 9))
        last == IF n = 10 THEN DecimalValue(sig[10]) ELSE 0
    IN  IF n < 10 THEN [fits |-> TRUE, min |-> FALSE, val |-> high]
        ELSE IF n > 10 \/ high > (INT_MAX \div 10)
        THEN [fits |-> FALSE, min |-> FALSE, val |-> 0]
        ELSE IF high < (INT_MAX \div 10) \/ last <= (INT_MAX % 10)
        THEN [fits |-> TRUE, min |-> FALSE, val |-> 10 * high + last]
        ELSE [fits |-> FALSE, min |-> last = (INT_MAX % 10) + 1, val |-> 0]

\* the digits and underscores a literal starts with after its sign; int()
\* reads them before it looks at what follows
DigitRun(b) ==
    LET stop == { i \in 1..Len(b) : ~(IsDecimal(b[i]) \/ b[i] = Underscore) }
    IN  SubSeq(b, 1, IF stop = {} THEN Len(b) ELSE SetMin(stop) - 1)

\* int(x) of a str.  ok = FALSE is a ValueError: "invalid literal for int()
\* with base 10" (what = "int") or "Exceeds the limit (4300 digits) for
\* integer string conversion" (what = "digits").  The limit is tested on the
\* leading digits, once they are well formed and before the rest of the
\* literal is looked at.  big: no C int holds the value
PyIntStripped(t) ==
    LET signed == t # <<>> /\ t[1] \in {Plus, Dash}
        b == IF signed THEN Tail(t) ELSE t
        r == DigitRun(b)
        digits == Cardinality({ i \in 1..Len(r) : IsDecimal(r[i]) })
        m == Magnitude(b)
    IN  IF ~(CHOOSE got \in { IsDigitString(held) : held \in {r} } : TRUE)
        THEN [ok |-> FALSE, what |-> "int", big |-> FALSE, val |-> 0]
        ELSE IF digits > MAX_STR_DIGITS
        THEN [ok |-> FALSE, what |-> "digits", big |-> FALSE, val |-> 0]
        ELSE IF Len(r) < Len(b)
        THEN [ok |-> FALSE, what |-> "int", big |-> FALSE, val |-> 0]
        ELSE IF signed /\ t[1] = Dash
        THEN [ok |-> TRUE, what |-> "none", big |-> ~m.fits /\ ~m.min,
              val |-> IF m.min THEN 0 - INT_MAX - 1 ELSE 0 - m.val]
        ELSE [ok |-> TRUE, what |-> "none", big |-> ~m.fits, val |-> m.val]

PyInt(x) == (CHOOSE got \in { PyIntStripped(held) : held \in {Strip(x)} } : TRUE)

----------------------------------------------------------------------------
(* datetime.date *)

MINYEAR == 1
MAXYEAR == 9999

IsLeap_Julian(year) == year % 4 = 0

IsLeap(year) == year % 4 = 0 /\ (year % 100 # 0 \/ year % 400 = 0)

DaysInMonth(year, month) ==
    IF month = 2 THEN (IF IsLeap(year) THEN 29 ELSE 28)
    ELSE IF month \in {4, 6, 9, 11} THEN 30 ELSE 31

\* datetime.date(year, month, day): the date, or the exception it raises.
\* The arguments are converted to C ints first, then year, month and day are
\* range-checked in that order.
Date(year, month, day) ==
    IF year.big \/ month.big \/ day.big
    THEN [kind |-> "raise", type |-> "OverflowError", what |-> "overflow"]
    ELSE IF year.val < MINYEAR \/ year.val > MAXYEAR
    THEN [kind |-> "raise", type |-> "ValueError", what |-> "year"]
    ELSE IF month.val < 1 \/ month.val > 12
    THEN [kind |-> "raise", type |-> "ValueError", what |-> "month"]
    ELSE IF day.val < 1 \/ day.val > DaysInMonth(year.val, month.val)
    THEN [kind |-> "raise", type |-> "ValueError", what |-> "day"]
    ELSE [kind |-> "date", year |-> year.val, month |-> month.val,
          day |-> day.val]

----------------------------------------------------------------------------
(* convert_date *)

\* [int(x) for x in string.split("-")], each part converted
RECURSIVE IntEach(_)
IntEach(split) ==
    IF split = <<>> THEN <<>>
    ELSE <<PyInt(Head(split))>> \o IntEach(Tail(split))
Parts(s) == IntEach(Split(s))

\* the list comprehension raises at the first part int() rejects
PartsRaise(parts) == \E i \in 1..Len(parts) : ~parts[i].ok
FirstRaise(parts) == parts[SetMin({ i \in 1..Len(parts) : ~parts[i].ok })]

\* lines 28-33 on the converted parts, with day and month taken in the
\* wrong order
ConvertParts_DayMonth(parts) ==
    IF PartsRaise(parts)
    THEN [kind |-> "raise", type |-> "ValueError",
          what |-> FirstRaise(parts).what]
    ELSE IF Len(parts) = 3
    THEN LET d == Date(parts[1], parts[3], parts[2])
         IN  IF d.kind = "date" THEN [kind |-> "return", value |-> d] ELSE d
    ELSE [kind |-> "raise", type |-> "ValueError", what |-> "format"]

ConvertDate_DayMonth(s) ==
    IF ~Truthy(s) THEN [kind |-> "return", value |-> None]
    ELSE (CHOOSE got \in { ConvertParts_DayMonth(held) : held \in {Parts(s.chars)} } : TRUE)

\* lines 28-33 accepting more than three parts and using the first three
ConvertParts_AtLeastThree(parts) ==
    IF PartsRaise(parts)
    THEN [kind |-> "raise", type |-> "ValueError",
          what |-> FirstRaise(parts).what]
    ELSE IF Len(parts) >= 3
    THEN LET d == Date(parts[1], parts[2], parts[3])
         IN  IF d.kind = "date" THEN [kind |-> "return", value |-> d] ELSE d
    ELSE [kind |-> "raise", type |-> "ValueError", what |-> "format"]

ConvertDate_AtLeastThree(s) ==
    IF ~Truthy(s) THEN [kind |-> "return", value |-> None]
    ELSE (CHOOSE got \in { ConvertParts_AtLeastThree(held) : held \in {Parts(s.chars)} } : TRUE)

\* lines 28-33 counting the parts before the error of their conversion is
\* raised
ConvertParts_CountFirst(parts) ==
    IF Len(parts) # 3
    THEN [kind |-> "raise", type |-> "ValueError", what |-> "format"]
    ELSE IF PartsRaise(parts)
    THEN [kind |-> "raise", type |-> "ValueError",
          what |-> FirstRaise(parts).what]
    ELSE LET d == Date(parts[1], parts[2], parts[3])
         IN  IF d.kind = "date" THEN [kind |-> "return", value |-> d] ELSE d

ConvertDate_CountFirst(s) ==
    IF ~Truthy(s) THEN [kind |-> "return", value |-> None]
    ELSE (CHOOSE got \in { ConvertParts_CountFirst(held) : held \in {Parts(s.chars)} } : TRUE)

\* lines 28-33 on the converted parts: the error of the first part int()
\* rejected, else the date of three parts or its error, else the format error
ConvertParts(parts) ==
    IF PartsRaise(parts)
    THEN [kind |-> "raise", type |-> "ValueError",
          what |-> FirstRaise(parts).what]
    ELSE IF Len(parts) = 3
    THEN LET d == Date(parts[1], parts[2], parts[3])
         IN  IF d.kind = "date" THEN [kind |-> "return", value |-> d] ELSE d
    ELSE [kind |-> "raise", type |-> "ValueError", what |-> "format"]

\* the outcome of convert_date(string)
ConvertDate(s) ==
    IF ~Truthy(s) THEN [kind |-> "return", value |-> None]
    ELSE (CHOOSE got \in { ConvertParts(held) : held \in {Parts(s.chars)} } : TRUE)

NoError == [kind |-> "none"]

\* convert_date returns
ConvertDateReturn ==
    /\ date_pc = "call"
    /\ \E r \in {ConvertDate(string)} : r.kind = "return" /\ date' = r.value
    /\ date_pc' = "returned"
    /\ UNCHANGED <<string, error>>
    /\ UNCHANGED main_vars

\* convert_date raises
ConvertDateRaise ==
    /\ date_pc = "call"
    /\ \E r \in {ConvertDate(string)} : r.kind = "raise" /\ error' = r
    /\ date_pc' = "raised"
    /\ UNCHANGED <<string, date>>
    /\ UNCHANGED main_vars

----------------------------------------------------------------------------
(* Inputs of convert_date *)

\* the dash-free pieces the inputs are put together from
Pieces ==
    { <<50, 48, 49, 50>>, \* "2012"
      <<49, 57, 48, 48>>, \* "1900"
      <<50, 48, 48, 48>>, \* "2000"
      <<48>>, \* "0"
      <<49, 48, 48, 48, 48>>, \* "10000"
      <<50, 49, 52, 55, 52, 56, 51, 54, 52, 56>>, \* "2147483648"
      <<48, 49>>, \* "01"
      <<48, 50>>, \* "02"
      <<48, 52>>, \* "04"
      <<49, 53>>, \* "15"
      <<50, 57>>, \* "29"
      <<51, 49>>, \* "31"
      <<97, 98>>, \* "ab"
      <<>>, \* ""
      <<43, 49>>, \* "+1"
      <<9, 50, 10>>, \* "\x092\x0a"
      <<49, 95, 53>>, \* "1_5"
      <<1633, 1637>>, \* "U+0661U+0665"
      <<160, 50>> \* "\xa02"
    }

\* the pieces of the parts after the third
ExtraPieces == { <<49, 53>>, <<97, 98>>, <<>> }

RECURSIVE JoinDash(_)
JoinDash(ps) ==
    IF Len(ps) = 1 THEN ps[1] ELSE ps[1] \o <<Dash>> \o JoinDash(Tail(ps))

PieceSeqs ==
    UNION { { ps \in [1..n -> Pieces] :
                \A i \in 4..n : ps[i] \in ExtraPieces } : n \in 1..MaxParts }

Inputs == {None} \cup { Str(JoinDash(ps)) : ps \in PieceSeqs }

----------------------------------------------------------------------------
(* argparse, as main sets it up *)

\* the option strings of the parser with the attribute each sets: -h and
\* --help, which ArgumentParser adds itself, and those of lines 43-58
RegisteredOptions ==
    { [option_string |-> <<45, 104>>, dest |-> "help"],
      [option_string |-> <<45, 45, 104, 101, 108, 112>>, dest |-> "help"],
      [option_string |-> <<45, 100>>, dest |-> "debian"],
      [option_string |-> <<45, 45, 100, 101, 98, 105, 97, 110>>, dest |-> "debian"],
      [option_string |-> <<45, 117>>, dest |-> "ubuntu"],
      [option_string |-> <<45, 45, 117, 98, 117, 110, 116, 117>>, dest |-> "ubuntu"] }

IsOptionString(o) == \E r \in RegisteredOptions : r.option_string = o
Dest(o) == (CHOOSE r \in RegisteredOptions : r.option_string = o).dest

\* the argument "--", after which every argument is a positional
Terminator == <<Dash, Dash>>

StartsWith(s, p) == Len(p) <= Len(s) /\ SubSeq(s, 1, Len(p)) = p
Contains(s, c) == \E i \in 1..Len(s) : s[i] = c
\* s.split(c, 1) of an s that contains c
BeforeFirst(s, c) == SubSeq(s, 1, SetMin({ i \in 1..Len(s) : s[i] = c }) - 1)
AfterFirst(s, c) == SubSeq(s, SetMin({ i \in 1..Len(s) : s[i] = c }) + 1, Len(s))

\* os.path.basename: what follows the last slash
Basename(path) ==
    LET slashes == { i \in 1..Len(path) : path[i] = Slash }
    IN  IF slashes = {} THEN path
        ELSE SubSeq(path, SetMax(slashes) + 1, Len(path))

\* the negative number matcher of argparse, '^-\d+$|^-\d*\.\d+$'; $ also
\* matches before a line feed that ends the argument
NegativeNumberLike(a) ==
    LET b == IF a # <<>> /\ a[Len(a)] = 10 THEN SubSeq(a, 1, Len(a) - 1) ELSE a
    IN  /\ Len(b) >= 2
        /\ b[1] = Dash
        /\ \/ \A i \in 2..Len(b) : IsDecimal(b[i])
           \/ \E k \in 2..(Len(b) - 1) :
                  /\ b[k] = Dot
                  /\ \A i \in 2..(k - 1) : IsDecimal(b[i])
                  /\ \A i \in (k + 1)..Len(b) : IsDecimal(b[i])

Option(dest, option_string, has_explicit, explicit) ==
    [class |-> "O", dest |-> dest, option_string |-> option_string,
     has_explicit |-> has_explicit, explicit |-> explicit]

\* _get_option_tuples: the options an argument abbreviates.  A long argument
\* matches the options its text before "=" is a prefix of; a short one the
\* option of its first two characters, the rest being an explicit argument
OptionTuples(a) ==
    IF a[2] = Dash
    THEN LET prefix == IF Contains(a, Equals) THEN BeforeFirst(a, Equals)
                       ELSE a
         IN  { Option(r.dest, r.option_string, Contains(a, Equals),
                      IF Contains(a, Equals) THEN AfterFirst(a, Equals)
                      ELSE <<>>) :
                 r \in { q \in RegisteredOptions :
                           StartsWith(q.option_string, prefix) } }
    ELSE { Option(r.dest, r.option_string, TRUE, SubSeq(a, 3, Len(a))) :
             r \in { q \in RegisteredOptions :
                       q.option_string = SubSeq(a, 1, 2) } }
         \cup
         { Option(r.dest, r.option_string, FALSE, <<>>) :
             r \in { q \in RegisteredOptions :
                       /\ q.option_string # SubSeq(a, 1, 2)
                       /\ StartsWith(q.option_string, a) } }

\* _parse_optional: a positional (class "A"), an option with the explicit
\* argument written into it (class "O"; dest "none": no option of the
\* parser), or an ambiguous abbreviation
ParseOptional(a) ==
    IF a = <<>> \/ a[1] # Dash THEN [class |-> "A"]
    ELSE IF IsOptionString(a) THEN Option(Dest(a), a, FALSE, <<>>)
    ELSE IF Len(a) = 1 THEN [class |-> "A"]
    ELSE IF Contains(a, Equals) /\ IsOptionString(BeforeFirst(a, Equals))
    THEN Option(Dest(BeforeFirst(a, Equals)), BeforeFirst(a, Equals), TRUE,
                AfterFirst(a, Equals))
    ELSE LET tuples == OptionTuples(a)
         IN  IF Cardinality(tuples) > 1 THEN [class |-> "ambiguous"]
             ELSE IF Cardinality(tuples) = 1 THEN CHOOSE t \in tuples : TRUE
             ELSE IF NegativeNumberLike(a) THEN [class |-> "A"]
             ELSE IF Contains(a, Blank) THEN [class |-> "A"]
             ELSE Option("none", a, FALSE, <<>>)

\* consume_optional: the actions one argument triggers.  No option here
\* takes an argument, so an explicit argument after a short option is read
\* as further short options (-du), and any other one is an error
RECURSIVE ConsumeOptional(_, _)
ConsumeOptional(o, actions) ==
    IF o.dest = "none" THEN [kind |-> "extra"]
    ELSE IF ~o.has_explicit
    THEN [kind |-> "actions", actions |-> Append(actions, o.dest)]
    ELSE IF o.option_string[2] # Dash /\ o.explicit # <<>>
    THEN LET next == <<Dash, o.explicit[1]>>
         IN  IF IsOptionString(next)
             THEN ConsumeOptional(
                      Option(Dest(next), next, Len(o.explicit) > 1,
                             Tail(o.explicit)),
                      Append(actions, o.dest))
             ELSE [kind |-> "error"]
    ELSE [kind |-> "error"]

\* where the options end: the index of the first "--", or past the end
OptionsEnd(arg_strings) ==
    SetMin({ i \in 1..Len(arg_strings) : arg_strings[i] = Terminator }
           \cup {Len(arg_strings) + 1})

\* the state of the scan at its start: store_true flags default to False,
\* the positional csv_file is not matched yet (it holds at most one argument)
Defaults ==
    [debian |-> FALSE, ubuntu |-> FALSE, csv_file |-> <<>>, extras |-> <<>>,
     exit |-> "none", csv_last |-> FALSE]

\* the scan of parse_args over the arguments from the i-th on.  Options set
\* their flag in any position, the help action and an ignored explicit
\* argument end the scan; the first positional is csv_file; the first "--"
\* goes with csv_file when it stands right before or after it; everything
\* else is collected as unrecognized
RECURSIVE Scan(_, _, _)
Scan(arg_strings, i, ns) ==
    IF i > Len(arg_strings) THEN ns
    ELSE LET a == arg_strings[i]
             end == OptionsEnd(arg_strings)
         IN  IF i = end
             THEN IF (ns.csv_file = <<>> /\ i < Len(arg_strings))
                     \/ ns.csv_last
                  THEN Scan(arg_strings, i + 1, ns)
                  ELSE Scan(arg_strings, i + 1,
                            [ns EXCEPT !.extras = Append(@, a)])
             ELSE IF i > end \/ ParseOptional(a).class = "A"
             THEN IF ns.csv_file = <<>>
                  THEN Scan(arg_strings, i + 1,
                            [ns EXCEPT !.csv_file = <<a>>, !.csv_last = TRUE])
                  ELSE Scan(arg_strings, i + 1,
                            [ns EXCEPT !.extras = Append(@, a),
                                       !.csv_last = FALSE])
             ELSE LET c == ConsumeOptional(ParseOptional(a), <<>>)
                  IN  IF c.kind = "extra"
                      THEN Scan(arg_strings, i + 1,
                                [ns EXCEPT !.extras = Append(@, a),
                                           !.csv_last = FALSE])
                      ELSE IF c.kind = "error"
                      THEN [ns EXCEPT !.exit = "explicit"]
                      ELSE IF \E k \in 1..Len(c.actions) :
                                  c.actions[k] = "help"
                      THEN [ns EXCEPT !.exit = "help"]
                      ELSE Scan(arg_strings, i + 1,
                                [ns EXCEPT
                                   !.debian = @ \/ \E k \in 1..Len(c.actions) :
                                                      c.actions[k] = "debian",
                                   !.ubuntu = @ \/ \E k \in 1..Len(c.actions) :
                                                      c.actions[k] = "ubuntu",
                                   !.csv_last = FALSE])

\* an ambiguous abbreviation among the options is an error before any
\* action is taken
Ambiguous(arg_strings) ==
    \E i \in 1..(OptionsEnd(arg_strings) - 1) :
        ParseOptional(arg_strings[i]).class = "ambiguous"

\* line 40: the usage string, built with the script name
Usage(script_name) == script_name \o <<32, 91, 45, 104, 93, 32, 45, 100, 124, 45, 117, 32, 99, 115, 118, 45, 102, 105, 108, 101>>

\* the % formatting of str, as argparse applies it to the usage string
\* (usage % dict(prog=...)) when it writes a help or usage message
FormatFlags == {Dash, Plus, Blank, 35, 48}
FormatDigits == 48..57
LengthModifiers == {104, 108, 76}
\* %s, %r and %a take any object
TextConversions == {115, 114, 97}
\* %d %i %u %o %x %X %e %E %f %F %g %G %c take a number (or one character),
\* which neither the mapping nor the program name is
NumberConversions ==
    {100, 105, 117, 111, 120, 88, 101, 69, 102, 70, 103, 71, 99}

\* the largest width (PY_SSIZE_T_MAX) and precision (INT_MAX) of a
\* conversion, as the digits they are compared in
WidthLimit == <<57, 50, 50, 51, 51, 55, 50, 48, 51, 54, 56, 53, 52, 55, 55, 53, 56, 48, 55>>
PrecisionLimit == <<50, 49, 52, 55, 52, 56, 51, 54, 52, 55>>

\* the number written with the digits ds is above that of the digits limit
Exceeds(ds, limit) ==
    LET nz == { i \in 1..Len(ds) : ds[i] # 48 }
        sig == IF nz = {} THEN <<>> ELSE SubSeq(ds, SetMin(nz), Len(ds))
    IN  \/ Len(sig) > Len(limit)
        \/ /\ Len(sig) = Len(limit)
           /\ \E k \in 1..Len(sig) :
                  /\ sig[k] > limit[k]
                  /\ \A j \in 1..(k - 1) : sig[j] = limit[j]

\* a text padded to a width of this many digits or more is too large to
\* count on its allocation
LargeWidthDigits == 7
MayNotFit(ds) ==
    LET nz == { i \in 1..Len(ds) : ds[i] # 48 }
    IN  nz # {} /\ Len(ds) - SetMin(nz) + 1 >= LargeWidthDigits

\* the first position from i on that holds no character of the set
SkipAll(fmt, i, set) ==
    SetMin({ k \in i..Len(fmt) : fmt[k] \notin set } \cup {Len(fmt) + 1})

\* the position after the parenthesis that closes a mapping key, the key
\* starting at i; 0 when the format ends before
RECURSIVE KeyEnd(_, _, _)
KeyEnd(fmt, i, depth) ==
    IF depth = 0 THEN i
    ELSE IF i > Len(fmt) THEN 0
    ELSE IF fmt[i] = RightParen THEN KeyEnd(fmt, i + 1, depth - 1)
    ELSE IF fmt[i] = LeftParen THEN KeyEnd(fmt, i + 1, depth + 1)
    ELSE KeyEnd(fmt, i + 1, depth)

\* how fmt % dict(prog=...) can end from position i on: "ok", or the type
\* of the exception raised.  available: an argument is left to convert (the
\* mapping itself for a conversion without key, the value of a key from
\* the key on).  A conversion is %, a key in parentheses, flags, a width,
\* a precision, a length modifier and the conversion character
RECURSIVE Format(_, _, _)

\* the conversion character at c, after a width of the digits width
Conversion(fmt, c, available, width) ==
    IF c > Len(fmt) THEN {"ValueError"}
    ELSE IF ~available THEN {"TypeError"}
    ELSE IF fmt[c] \in TextConversions
    THEN (IF MayNotFit(width) THEN {"MemoryError"} ELSE {})
             \cup Format(fmt, c + 1, FALSE)
    ELSE IF fmt[c] \in NumberConversions THEN {"TypeError"}
    ELSE {"ValueError"}

\* the length modifier at m
Modifier(fmt, m, available, width) ==
    IF m > Len(fmt) THEN {"ValueError"}
    ELSE IF fmt[m] \in LengthModifiers
    THEN Conversion(fmt, m + 1, available, width)
    ELSE Conversion(fmt, m, available, width)

\* the precision at p
Precision(fmt, p, available, width) ==
    IF p > Len(fmt) THEN {"ValueError"}
    ELSE IF fmt[p] # Dot THEN Modifier(fmt, p, available, width)
    ELSE IF p + 1 > Len(fmt) THEN {"ValueError"}
    ELSE IF fmt[p + 1] = Star THEN {"TypeError"}
    ELSE LET e == SkipAll(fmt, p + 1, FormatDigits)
         IN  IF Exceeds(SubSeq(fmt, p + 1, e - 1), PrecisionLimit)
             THEN {"ValueError"}
             ELSE Modifier(fmt, e, available, width)

\* the flags and the width at f
FlagsAndWidth(fmt, f, available) ==
    LET w == SkipAll(fmt, f, FormatFlags)
        e == SkipAll(fmt, w, FormatDigits)
    IN  IF w > Len(fmt) THEN {"ValueError"}
        ELSE IF fmt[w] = Star THEN {"TypeError"}
        ELSE IF Exceeds(SubSeq(fmt, w, e - 1), WidthLimit)
        THEN {"ValueError"}
        ELSE Precision(fmt, e, available, SubSeq(fmt, w, e - 1))

Format(fmt, i, available) ==
    LET percents == { k \in i..Len(fmt) : fmt[k] = Percent }
        a == SetMin(percents) + 1
    IN  IF percents = {} THEN {"ok"}
        ELSE IF a > Len(fmt) THEN {"ValueError"}
        ELSE IF fmt[a] = Percent THEN Format(fmt, a + 1, available)
        ELSE IF fmt[a] # LeftParen THEN FlagsAndWidth(fmt, a, available)
        ELSE LET k == KeyEnd(fmt, a + 1, 1)
             IN  IF k = 0 THEN {"ValueError"}
                 ELSE IF SubSeq(fmt, a + 1, k - 2) # <<112, 114, 111, 103>>
                 THEN {"KeyError"}
                 ELSE FlagsAndWidth(fmt, k, TRUE)

\* a help or usage message is written and parser.exit(status) called, or
\* the formatting of the usage string raises
Exit(code, message, script_name) ==
    { IF outcome = "ok"
      THEN [kind |-> "exit", code |-> code, message |-> message]
      ELSE [kind |-> "exception", type |-> outcome] :
        outcome \in Format(Usage(script_name), 1, TRUE) }

\* how parse_args can end on a list of arguments
ParseArgsOf(arg_strings, script_name) ==
    IF Ambiguous(arg_strings) THEN Exit(2, "ambiguous", script_name)
    ELSE LET ns == Scan(arg_strings, 1, Defaults)
         IN  IF ns.exit = "help" THEN Exit(0, "help", script_name)
             ELSE IF ns.exit = "explicit"
             THEN Exit(2, "explicit", script_name)
             ELSE IF ns.csv_file = <<>>
             THEN Exit(2, "required", script_name)
             ELSE IF ns.extras # <<>>
             THEN Exit(2, "unrecognized", script_name)
             ELSE {[kind |-> "namespace", debian |-> ns.debian,
                    ubuntu |-> ns.ubuntu, csv_file |-> ns.csv_file[1]]}

\* parse_args given all of sys.argv, the program name included
ParseArgs_WithProgram(argv) == ParseArgsOf(argv, Basename(argv[1]))

\* parser.parse_args() on sys.argv[1:]: the namespace, the exit it makes, or
\* the exception it raises
ParseArgs(argv) == ParseArgsOf(Tail(argv), Basename(argv[1]))

----------------------------------------------------------------------------
(* main *)

\* the validation functions a caller may pass in
ValidationFunctions == {"valid", "invalid", "a_valid"}

\* validation_function(csv_file, distro)
Call(f, csv_file, label) ==
    CASE f = "valid" -> TRUE
      [] f = "invalid" -> FALSE
      [] f = "a_valid" -> csv_file = <<97, 46, 99, 115, 118>>

Selected_AtLeastOne(ns) == IF ns.debian \/ ns.ubuntu THEN 1 ELSE 0

\* len([x for x in [args.debian, args.ubuntu] if x])
Selected(ns) == Cardinality({ x \in {"debian", "ubuntu"} : ns[x] })

Distro_Swapped(ns) == IF ns.debian THEN "ubuntu" ELSE "debian"

\* lines 65-68
Distro(ns) == IF ns.debian THEN "debian" ELSE "ubuntu"

ExitCode_NotNegated(result) == IF result THEN 1 ELSE 0

\* int(not result)
ExitCode(result) == IF result THEN 0 ELSE 1

\* line 61: parse_args returns the namespace
ParseArgsNamespace ==
    /\ pc = "parse_args"
    /\ \E r \in ParseArgs(sys_argv) : r.kind = "namespace" /\ args' = r
    /\ pc' = "check"
    /\ UNCHANGED <<sys_argv, validation_function, distro, calls, status, run,
                   prev, args_changed>>
    /\ UNCHANGED date_vars

\* line 61: parse_args prints the help and exits
ParseArgsHelp ==
    /\ pc = "parse_args"
    /\ \E r \in ParseArgs(sys_argv) :
           r.kind = "exit" /\ r.code = 0 /\ status' = r
    /\ pc' = "exited"
    /\ UNCHANGED <<sys_argv, validation_function, args, distro, calls, run,
                   prev, args_changed>>
    /\ UNCHANGED date_vars

\* line 61: parse_args reports a usage error and exits
ParseArgsError ==
    /\ pc = "parse_args"
    /\ \E r \in ParseArgs(sys_argv) :
           r.kind = "exit" /\ r.code # 0 /\ status' = r
    /\ pc' = "exited"
    /\ UNCHANGED <<sys_argv, validation_function, args, distro, calls, run,
                   prev, args_changed>>
    /\ UNCHANGED date_vars

\* line 61: parse_args raises while it formats the help or the usage error
ParseArgsRaise ==
    /\ pc = "parse_args"
    /\ \E r \in ParseArgs(sys_argv) : r.kind = "exception" /\ status' = r
    /\ pc' = "raised"
    /\ UNCHANGED <<sys_argv, validation_function, args, distro, calls, run,
                   prev, args_changed>>
    /\ UNCHANGED date_vars

\* lines 62-63: not exactly one of the two flags, parser.error exits
SelectionError ==
    /\ pc = "check"
    /\ Selected(args) # 1
    /\ \E r \in Exit(2, "select", Basename(sys_argv[1])) :
           r.kind = "exit" /\ status' = r
    /\ pc' = "exited"
    /\ UNCHANGED <<sys_argv, validation_function, args, distro, calls, run,
                   prev, args_changed>>
    /\ UNCHANGED date_vars

\* lines 62-63: not exactly one of the two flags, parser.error raises while
\* it formats the usage error
SelectionErrorRaise ==
    /\ pc = "check"
    /\ Selected(args) # 1
    /\ \E r \in Exit(2, "select", Basename(sys_argv[1])) :
           r.kind = "exception" /\ status' = r
    /\ pc' = "raised"
    /\ UNCHANGED <<sys_argv, validation_function, args, distro, calls, run,
                   prev, args_changed>>
    /\ UNCHANGED date_vars

\* lines 62-68: exactly one flag, which gives the distro label
SelectDistro ==
    /\ pc = "check"
    /\ Selected(args) = 1
    /\ distro' = Distro(args)
    /\ pc' = "validate"
    /\ UNCHANGED <<sys_argv, validation_function, args, calls, status, run,
                   prev, args_changed>>
    /\ UNCHANGED date_vars

\* line 70: the validation function is called and main returns
Validate ==
    /\ pc = "validate"
    /\ LET result == Call(validation_function, args.csv_file, distro)
       IN  /\ calls' = Append(calls, [csv_file |-> args.csv_file,
                                      distro |-> distro, result |-> result])
           /\ status' = [kind |-> "return", code |-> ExitCode(result)]
    /\ pc' = "done"
    /\ UNCHANGED <<sys_argv, validation_function, args, distro, run, prev,
                   args_changed>>
    /\ UNCHANGED date_vars

----------------------------------------------------------------------------
(* The process around main *)

\* the paths the program is started as
Programs ==
    { <<47, 117, 115, 114, 47, 98, 105, 110, 47, 118, 97, 108, 105, 100, 97, 116, 101, 45, 99, 115, 118, 45, 100, 97, 116, 97>>, \* "/usr/bin/validate-csv-data"
      <<46, 47, 116, 101, 115, 116, 45, 37, 100>> \* "./test-%d"
    }

\* the command line arguments
Arguments ==
    { <<45, 100>>, \* "-d"
      <<45, 45, 100, 101, 98>>, \* "--deb"
      <<45, 117>>, \* "-u"
      <<45, 104>>, \* "-h"
      <<45, 100, 117>>, \* "-du"
      <<45, 45>>, \* "--"
      <<45, 120>>, \* "-x"
      <<97, 46, 99, 115, 118>>, \* "a.csv"
      <<98, 46, 99, 115, 118>> \* "b.csv"
    }

ArgumentLists == UNION { [1..n -> Arguments] : n \in 0..MaxArgs }

ProcessArguments == { <<p>> \o a : p \in Programs, a \in ArgumentLists }

\* what a run leaves behind for an observer: the calls of the validation
\* function and how it ended
Outcome == [calls |-> calls, status |-> status]

\* the argument lists of a second start after a start with the list a: the
\* same list, and the list without its last argument
Restarts(a) ==
    {a} \cup { SubSeq(a, 1, Len(a) - 1) : n \in { k \in {1} : Len(a) > 0 } }

\* the program is started a second time, with the same validation function,
\* under any program name and with the same or a changed argument list
SecondRun ==
    /\ pc \in {"done", "exited", "raised"}
    /\ run = "first"
    /\ run' = "second"
    /\ prev' = [outcome |-> Outcome, program |-> sys_argv[1]]
    /\ \E p \in Programs, a \in Restarts(Tail(sys_argv)) :
           sys_argv' = <<p>> \o a
    /\ args_changed' = (Tail(sys_argv') # Tail(sys_argv))
    /\ pc' = "parse_args"
    /\ args' = None
    /\ distro' = None
    /\ calls' = <<>>
    /\ status' = None
    /\ UNCHANGED validation_function
    /\ UNCHANGED date_vars

DateIdle ==
    /\ string = None
    /\ date_pc = "idle"
    /\ date = None
    /\ error = [kind |-> "none"]

Init ==
    /\ sys_argv \in ProcessArguments
    /\ validation_function \in ValidationFunctions
    /\ pc = "parse_args"
    /\ args = None
    /\ distro = None
    /\ calls = <<>>
    /\ status = None
    /\ run = "first"
    /\ prev = None
    /\ args_changed = FALSE
    /\ DateIdle

Next ==
    \/ ParseArgsNamespace
    \/ ParseArgsHelp
    \/ ParseArgsError
    \/ ParseArgsRaise
    \/ SelectionError
    \/ SelectionErrorRaise
    \/ SelectDistro
    \/ Validate
    \/ SecondRun

Spec == Init /\ [][Next]_vars

----------------------------------------------------------------------------
(* convert_date on its own: main stays idle *)

MainIdle ==
    /\ sys_argv = <<>>
    /\ validation_function = "none"
    /\ pc = "idle"
    /\ args = None
    /\ distro = None
    /\ calls = <<>>
    /\ status = None
    /\ run = "none"
    /\ prev = None
    /\ args_changed = FALSE

InitDate ==
    /\ string \in Inputs
    /\ date_pc = "call"
    /\ date = None
    /\ error = NoError
    /\ MainIdle

NextDate == ConvertDateReturn \/ ConvertDateRaise

SpecDate == InitDate /\ [][NextDate]_vars


----------------------------------------------------------------------------
(* Properties of convert_date, checked under SpecDate.  What an input is   *)
(* (its parts, whether a part is an integer literal, its calendar value)   *)
(* is stated here on the characters of the input, without the operators    *)
(* convert_date is modelled with.                                          *)

Converted == date_pc \in {"returned", "raised"}
NonEmptyInput == string.kind = "str" /\ string.chars # <<>>

DashPositions == { i \in 1..Len(string.chars) : string.chars[i] = Dash }
Boundaries == {0} \cup DashPositions \cup {Len(string.chars) + 1}
PartCount == Cardinality(DashPositions) + 1

\* the n-th dash-separated part of the input
PartNumber(n) ==
    LET a == CHOOSE x \in Boundaries :
                 Cardinality({ y \in Boundaries : y < x }) = n - 1
        b == CHOOSE x \in Boundaries :
                 Cardinality({ y \in Boundaries : y < x }) = n
    IN  SubSeq(string.chars, a + 1, b - 1)

\* a part that int() accepts: whitespace around an optional sign and decimal
\* digits, with single underscores between digits, and no more digits than
\* the limit of the conversion
IsIntLiteral(part) ==
    \E i \in 0..Len(part), j \in 0..Len(part) :
        /\ i <= j
        /\ \A k \in 1..i : IsSpace(part[k])
        /\ \A k \in (j + 1)..Len(part) : IsSpace(part[k])
        /\ LET core == SubSeq(part, i + 1, j)
               body == IF core # <<>> /\ core[1] \in {Plus, Dash}
                       THEN Tail(core) ELSE core
           IN  /\ body # <<>>
               /\ \A k \in 1..Len(body) :
                      \/ IsDecimal(body[k])
                      \/ /\ body[k] = Underscore
                         /\ 1 < k /\ k < Len(body)
                         /\ IsDecimal(body[k - 1])
                         /\ IsDecimal(body[k + 1])
               /\ Cardinality({ k \in 1..Len(body) : IsDecimal(body[k]) })
                      <= MAX_STR_DIGITS

AllPartsInt == \A n \in 1..PartCount : IsIntLiteral(PartNumber(n))

RECURSIVE DropZeros(_)
DropZeros(ds) ==
    IF ds # <<>> /\ Head(ds) = 0 THEN DropZeros(Tail(ds)) ELSE ds

RECURSIVE Positional(_)
Positional(ds) ==
    IF ds = <<>> THEN 0
    ELSE 10 * Positional(SubSeq(ds, 1, Len(ds) - 1)) + ds[Len(ds)]

\* the digits of a part, each as its value
DigitsOf(part) ==
    LET at == { k \in 1..Len(part) : IsDecimal(part[k]) }
        nth(n) == CHOOSE k \in at : Cardinality({ j \in at : j < k }) = n - 1
    IN  [n \in 1..Cardinality(at) |-> DecimalValue(part[nth(n)])]

\* the number a part without minus sign denotes; a number of six digits or
\* more is beyond every range of a date and stands as 100000
Number(part) ==
    LET ds == DropZeros(DigitsOf(part))
    IN  IF Len(ds) > 5 THEN 100000 ELSE Positional(ds)

MonthLengths == <<31, 28, 31, 30, 31, 30, 31, 31, 30, 31, 30, 31>>

Gregorian(y, m, d) ==
    /\ y \in 1..9999
    /\ m \in 1..12
    /\ d >= 1
    /\ d <= IF m = 2 /\ (y % 400 = 0 \/ (y % 4 = 0 /\ y % 100 # 0))
            THEN 29 ELSE MonthLengths[m]

\* the digits 0 to 9 of the ISO form
IsoDigits == 48..57

\* the input has the form YYYY-MM-DD
IsoForm ==
    /\ string.kind = "str"
    /\ Len(string.chars) = 10
    /\ \A i \in 1..10 :
           IF i \in {5, 8} THEN string.chars[i] = Dash
           ELSE string.chars[i] \in IsoDigits

ThreeIntParts == NonEmptyInput /\ PartCount = 3 /\ AllPartsInt

ValidParts ==
    Gregorian(Number(PartNumber(1)), Number(PartNumber(2)),
              Number(PartNumber(3)))

\* the errors of int(): no integer literal, or too many digits
NumericErrors == {"int", "digits"}
CalendarErrors == {"year", "month", "day", "overflow"}

\* C4: an input YYYY-MM-DD whose components are a valid calendar date is
\* converted to the date with that year, month and day, never to None or an
\* error
C4_IsoDateConverted ==
    (Converted /\ IsoForm /\ ValidParts)
        => /\ date_pc = "returned"
           /\ date.kind = "date"
           /\ date.year = Number(PartNumber(1))
           /\ date.month = Number(PartNumber(2))
           /\ date.day = Number(PartNumber(3))

C4_Witness ==
    /\ date_pc = "returned"
    /\ string = Str(<<50, 48, 49, 50, 45, 48, 49, 45, 49, 53>>)
    /\ date.kind = "date"
    /\ date.year = 2012 /\ date.month = 1 /\ date.day = 15

\* C5 as stated: a non-empty input with a number of parts other than three
\* fails with the format error
C5_Original ==
    (Converted /\ NonEmptyInput /\ PartCount # 3)
        => date_pc = "raised" /\ error.what = "format"

\* C5 amended: a non-empty input with a number of parts other than three, all
\* of them integer literals, fails with the format error and returns nothing
C5_FormatError ==
    (Converted /\ NonEmptyInput /\ PartCount # 3 /\ AllPartsInt)
        => /\ date_pc = "raised"
           /\ error.type = "ValueError"
           /\ error.what = "format"
           /\ date.kind = "None"

C5_Witness ==
    /\ date_pc = "raised"
    /\ string = Str(<<50, 48, 49, 50, 45, 48, 49>>)
    /\ error.what = "format"

\* C6: a non-empty input with a part that is no integer literal (an empty
\* part included) fails with the error of int(), whatever the number of parts
C6_NumericError ==
    (Converted /\ NonEmptyInput /\ ~AllPartsInt)
        => /\ date_pc = "raised"
           /\ error.type = "ValueError"
           /\ error.what \in NumericErrors

C6_Witness ==
    /\ date_pc = "raised"
    /\ string = Str(<<50, 48, 49, 50, 45, 48, 49, 45, 97, 98>>)
    /\ PartCount = 3
    /\ error.what = "int"

\* C7: three integer parts that are no valid calendar date make convert_date
\* fail with an error of the date constructor; no date is returned
C7_CalendarError ==
    (Converted /\ ThreeIntParts /\ ~ValidParts)
        => /\ date_pc = "raised"
           /\ error.what \in CalendarErrors
           /\ date.kind = "None"

C7_Witness ==
    /\ date_pc = "raised"
    /\ string = Str(<<50, 48, 49, 50, 45, 49, 53, 45, 48, 49>>)
    /\ error.what = "month"

\* C8: None and the empty string are converted to None without an error, and
\* every other input gives a date or an error, never None
C8_NoneOnlyForEmpty ==
    Converted
        => /\ ~NonEmptyInput => (date_pc = "returned" /\ date.kind = "None")
           /\ NonEmptyInput =>
                  \/ date_pc = "returned" /\ date.kind = "date"
                  \/ date_pc = "raised" /\ error.kind = "raise"

C8_Witness ==
    /\ date_pc = "returned"
    /\ string = Str(<<>>)
    /\ date.kind = "None"
    /\ error.kind = "none"

\* C10: the parts are converted before they are counted: an input with a
\* number of parts other than three and a part that is no integer literal
\* fails with the error of int(), not with the format error
C10_NumericBeforeFormat ==
    (Converted /\ NonEmptyInput /\ PartCount # 3 /\ ~AllPartsInt)
        => /\ date_pc = "raised"
           /\ error.what \in NumericErrors
           /\ error.what # "format"

C10_Witness ==
    /\ date_pc = "raised"
    /\ string = Str(<<50, 48, 49, 50, 45, 97, 98>>)
    /\ PartCount = 2
    /\ error.what = "int"

----------------------------------------------------------------------------
(* Properties of main, checked under Spec.  Which flags and which file the *)
(* command line gives is stated on sys.argv itself.                        *)

Ended == pc \in {"done", "exited", "raised"}
CommandLine == Tail(sys_argv)

\* the arguments before the first "--" can be options
LastOption ==
    IF \E i \in 1..Len(CommandLine) : CommandLine[i] = <<Dash, Dash>>
    THEN (CHOOSE i \in 1..Len(CommandLine) :
              /\ CommandLine[i] = <<Dash, Dash>>
              /\ \A j \in 1..(i - 1) : CommandLine[j] # <<Dash, Dash>>) - 1
    ELSE Len(CommandLine)

\* the letters of the short options -d, -u and -h
ShortLetters == {100, 117, 104}

\* the argument a selects the option with the long form long and the short
\* letter short: the long form or an abbreviation of it that no other long
\* option shares, or a group of short options with that letter
Spells(a, long, short) ==
    \/ /\ Len(a) >= 3
       /\ Len(a) <= Len(long)
       /\ \A k \in 1..Len(a) : a[k] = long[k]
    \/ /\ Len(a) >= 2
       /\ a[1] = Dash
       /\ \A k \in 2..Len(a) : a[k] \in ShortLetters
       /\ \E k \in 2..Len(a) : a[k] = short

Given(long, short) ==
    \E i \in 1..LastOption : Spells(CommandLine[i], long, short)

DebianFlag == Given(<<45, 45, 100, 101, 98, 105, 97, 110>>, 100)
UbuntuFlag == Given(<<45, 45, 117, 98, 117, 110, 116, 117>>, 117)
HelpFlag == Given(<<45, 45, 104, 101, 108, 112>>, 104)
OneFlag == DebianFlag # UbuntuFlag

\* an argument that reads as a number or has a blank in it is no option
NoOptionText(a) ==
    \/ \E k \in 1..Len(a) : a[k] = Blank
    \/ \A k \in 2..Len(a) : IsDecimal(a[k]) \/ a[k] \in {Dot, 10}

\* the i-th argument is a file argument: it follows the "--", or does not
\* start with a dash, or is a single dash, or starts with a dash and is no
\* option
IsFile(i) ==
    LET a == CommandLine[i]
    IN  \/ i > LastOption + 1
        \/ /\ i <= LastOption
           /\ \/ a = <<>>
              \/ a[1] # Dash
              \/ a = <<Dash>>
              \/ NoOptionText(a)

FileGiven == \E i \in 1..Len(CommandLine) : IsFile(i)
FirstFile ==
    CommandLine[CHOOSE i \in 1..Len(CommandLine) :
                    IsFile(i) /\ \A j \in 1..(i - 1) : ~IsFile(j)]

\* the validation function is called only with exactly one flag and a file
CalledOnlyWhenSelected == calls # <<>> => (OneFlag /\ FileGiven)

\* C1 as stated: the validation function is called only with exactly one flag
\* and the file argument; without that the run ends in a usage error with a
\* non-zero exit
C1_Original ==
    /\ CalledOnlyWhenSelected
    /\ (Ended /\ ~(OneFlag /\ FileGiven))
           => status.kind = "exit" /\ status.code # 0 /\ calls = <<>>

\* the program name has a percent sign, which the formatting of the usage
\* string takes for a conversion
PercentInName == \E k \in 1..Len(sys_argv[1]) : sys_argv[1][k] = Percent

\* C1 amended: the validation function is called only with exactly one flag
\* and the file argument; without that it is never called and main does not
\* return: the run ends in an exit of the parser (the help with status 0,
\* which takes a help option among the arguments, or else a usage error
\* with a non-zero status) or, with a percent sign in the program name, in
\* an exception raised while the message is formatted
C1_UsageErrorOrHelp ==
    /\ CalledOnlyWhenSelected
    /\ (Ended /\ ~(OneFlag /\ FileGiven))
           => /\ calls = <<>>
              /\ status.kind \in {"exit", "exception"}
              /\ status.kind = "exit" =>
                     IF status.message = "help"
                     THEN status.code = 0 /\ HelpFlag
                     ELSE status.code # 0
              /\ status.kind = "exception" => PercentInName

C1_Witness ==
    /\ pc = "exited"
    /\ DebianFlag /\ UbuntuFlag /\ FileGiven /\ ~HelpFlag
    /\ status.code = 2
    /\ status.message = "select"
    /\ calls = <<>>

\* C2: main returns only after it called the validation function, with exit
\* code 0 when the function returned true and 1 when it returned false,
\* whichever flag is set
C2_ExitCode ==
    (Ended /\ (status.kind = "return" \/ calls # <<>>))
        => /\ status.kind = "return"
           /\ OneFlag /\ FileGiven
           /\ Len(calls) = 1
           /\ calls[1].result => status.code = 0
           /\ ~calls[1].result => status.code = 1
           /\ validation_function = "valid" => status.code = 0
           /\ validation_function = "invalid" => status.code = 1

C2_Witness ==
    /\ pc = "done"
    /\ UbuntuFlag /\ ~DebianFlag
    /\ ~calls[1].result
    /\ status.code = 1

\* C3: the validation function is called with the file argument as given and
\* with the label "debian" exactly when the Debian flag is the one set and
\* "ubuntu" exactly when the Ubuntu flag is the one set
C3_CallArguments ==
    calls # <<>>
        => /\ Len(calls) = 1
           /\ calls[1].csv_file = FirstFile
           /\ calls[1].distro \in {"debian", "ubuntu"}
           /\ calls[1].distro = "debian" <=> (DebianFlag /\ ~UbuntuFlag)
           /\ calls[1].distro = "ubuntu" <=> (UbuntuFlag /\ ~DebianFlag)

C3_Witness ==
    /\ pc = "done"
    /\ sys_argv[2] = <<98, 46, 99, 115, 118>>
    /\ DebianFlag
    /\ calls[1].csv_file = <<98, 46, 99, 115, 118>>
    /\ calls[1].distro = "debian"

SecondEnded == run = "second" /\ Ended

Returned(s) == s.kind = "return"
Exited(s) == s.kind = "exit"

\* two runs made the same validator call and ended with the same exit code
SameOutcome ==
    /\ calls = prev.outcome.calls
    /\ status.kind = prev.outcome.status.kind
    /\ (Returned(status) \/ Exited(status)) =>
           status.code = prev.outcome.status.code

\* C9 as stated: two runs of main with the same validation function have the
\* same validator call and exit code, whatever the process arguments are
C9_Original == SecondEnded => SameOutcome

\* C9 amended: main takes the command line from the process arguments
\* sys.argv; two runs with the same validation function and the same
\* arguments sys.argv[1:] make the same validator call and, where main
\* returns, return the same exit code, whatever the program name
\* sys.argv[0] is; two such runs that both end in an exit of the parser
\* exit with the same status
C9_SameArguments ==
    (SecondEnded /\ ~args_changed)
        => /\ calls = prev.outcome.calls
           /\ (Returned(status) \/ Returned(prev.outcome.status)) =>
                  /\ Returned(status) /\ Returned(prev.outcome.status)
                  /\ status.code = prev.outcome.status.code
           /\ (Exited(status) /\ Exited(prev.outcome.status)) =>
                  status.code = prev.outcome.status.code

C9_Witness ==
    /\ SecondEnded
    /\ ~args_changed
    /\ prev.program # sys_argv[1]
    /\ calls # <<>>
    /\ Returned(status)
    /\ status.code = prev.outcome.status.code

====
